---- MODULE Spec2Model ----
(***************************************************************************)
(* State-machine model of SocketClient / MessageSubject                    *)
(* (packages/http/tests/module.spec.ts, lines 180-687).                    *)
(*                                                                         *)
(* JavaScript runs one task at a time: a socket event or an API call is a  *)
(* task, and every promise continuation it schedules is a microtask that   *)
(* runs, in FIFO order, before the next task starts.  The model keeps the  *)
(* microtask queue explicitly (mq); tasks are enabled only when it is      *)
(* empty.  Handlers are operators from a state record to a state record,   *)
(* so that a handler that calls another one is the composition of both.    *)
(***************************************************************************)
EXTENDS Integers, Sequences, FiniteSets, TLC

\* ---- bounds of the model ------------------------------------------------
MaxCalls == 3            \* connect() and sendMessage() invocations
MaxAttempts == 2         \* doConnect() invocations (sockets created)
MaxCloses == 2           \* close() invocations on one MessageSubject
MaxGets == 2             \* getActionTypes() invocations
MaxStreams == 1          \* stream() invocations
MaxHolders == 2          \* stream() invocations that may share an entity
MaxMirrors == 2          \* EntitySubjects the entityState creates
MaxSubs == 2             \* subscribe() calls on one Observable
MaxFrames == 5           \* frames recorded in one run
MaxPayload == 7          \* bytes of a payload sent in chunks
MaxOverhead == 2         \* bytes a message adds to its payload
MaxGetActions == 3       \* getActions() invocations

VARIABLES
    token,              \* config.token is set (truthy)
    serverAccepts,      \* the server's verdict on that token
    connected,          \* SocketClient.connected
    loggedIn,           \* SocketClient.loggedIn
    messageId,          \* SocketClient.messageId
    connectionTries,    \* SocketClient.connectionTries
    replies,            \* SocketClient.replies: message id -> call whose subject the callback feeds
    connectionPromise,  \* SocketClient.connectionPromise: 0 (undefined) or the attempt it is the promise of
    socket,             \* SocketClient.socket: 0 (undefined) or the attempt that created it
    attempts,           \* one record per doConnect(): its promise and its WebSocket
    calls,              \* one record per connect() / sendMessage() invocation
    mq,                 \* microtask queue
    wire,               \* frames handed to WebSocket.send, in order
    lastEvent,          \* the frame onMessage was just given and what it did with it,
                        \* until socket.onmessage returns
    cachedActionsTypes, \* SocketClient.cachedActionsTypes: (controller, action) -> descriptor, 0 if none
    gats,               \* one record per getActionTypes() invocation
    streams,            \* one record per stream() invocation
    entityState,        \* SocketClient.entityState: entity id -> the EntitySubject it tracks, 0 if none
    mirrors,            \* the EntitySubjects created so far
    recording,          \* the run records the frames that arrive and where they go
    arrived,            \* the frames onMessage was called with, in order, if recording
    rpcClass,           \* what rpcClass._fetch gives: per class, the RpcController its decorators built
    declared,           \* rpcClass as the decorators left it
    returned,           \* what each getActions() call returned, in order
    transfers,          \* ClientProgress: the Progress of each direction and its updates
    handed              \* the frames subscribers were called with, in order, if recording:
                        \* the call whose subscriber it was and the frame's place in arrived

vars == <<token, serverAccepts, connected, loggedIn, messageId, connectionTries, replies,
          connectionPromise, socket, attempts, calls, mq, wire, lastEvent,
          cachedActionsTypes, gats, streams, entityState, mirrors,
          recording, arrived, handed, transfers, rpcClass, declared, returned>>

\* ---- frames -------------------------------------------------------------
EntityTypes == {"entity/remove", "entity/patch", "entity/update", "entity/removeMany"}

ReplyTypes == {"authenticate/result", "actionTypes/result", "error"}

FrameTypes == EntityTypes \cup ReplyTypes \cup {"channel"}

\* The ids the server names: 0 stands for an id no exchange was ever given,
\* the others are the ids allocated so far.
FrameIds == 0 .. messageId

\* An entity notification's id is the entity's: 0 meets no exchange, 1 does.
EntityIds == {0, 1}

\* A frame: its type and id, and the payload the client reads: result
\* (authenticate/result), desc (the parameters and returnType of
\* actionTypes/result, 0 if none), returnType and item (type frames; item is
\* the id of the entity sent, 0 if none; for an entity notification, the id
\* of the entity it is about, 0 for an entity the model does not follow),
\* known (the entityName is in RegisteredEntities) and subscribeId.
Frame(t, i, r, d, rt, it) ==
    [type |-> t, id |-> i, result |-> r, desc |-> d, returnType |-> rt, item |-> it,
     known |-> TRUE, subscribeId |-> 0]

NullFrame == Frame("null", 0, FALSE, 0, "none", 0)

NoFrame == Frame("none", 0, FALSE, 0, "none", 0)

NoEvent == [frame |-> NoFrame, outcome |-> "none"]

\* The frames the server can put on the socket.  Only authenticate/result
\* carries a verdict, and the verdict is the server's.
Frames ==
    {Frame(t, i, t = "authenticate/result" /\ serverAccepts, IF t = "actionTypes/result" THEN 1 ELSE 0,
           "none", 0) : t \in ReplyTypes \cup {"channel"}, i \in FrameIds}
    \cup {Frame(t, i, FALSE, 0, "none", 0) : t \in EntityTypes, i \in EntityIds}
    \cup {NullFrame}

\* The (controller, action) pairs getActionTypes and stream are called with:
\* two actions of one controller.
Pairs == {<<"c", "a">>, <<"c", "b">>}

\* The descriptors ({parameters, returnType}) the server may answer with.
Descs == {1, 2}

\* The entities the model follows in the entityState.
EntityKeys == {1}

\* RegisteredEntities[types.returnType.entityName] is undefined: descriptor 2
\* declares an Entity the client has no class for.
Unregistered(d) == d = 2

\* ---- chunked transfers ------------------------------------------------------
\* The configured chunk size, in bytes.
ChunkSize == 3

Directions == {"upload", "download"}

\* A Progress nothing was tracked with yet.
NoProgress ==
    [started |-> FALSE, payload |-> 0, total |-> 0, current |-> 0, done |-> FALSE, updates |-> <<>>]

\* Progress.progress: 1 when done, current / total otherwise, in percent.
ProgressPercent(p) ==
    IF p.done THEN 100 ELSE IF p.total = 0 THEN 0 ELSE (p.current * 100) \div p.total

\* The total of a transfer is announced upfront: the length of the message.
SetStart(p, total) == [p EXCEPT !.started = TRUE, !.total = total]

\* A chunk that is always ChunkSize bytes long.
NextChunkFull(p) == ChunkSize

\* The length of the next chunk: the last one is what is left.
NextChunk(p) == IF p.total - p.current < ChunkSize THEN p.total - p.current ELSE ChunkSize

\* Progress.set(total, current) after a chunk: done is computed by comparing
\* current with the total, and the observers get an update.
SetCurrent(p, current) ==
    LET q == [p EXCEPT !.current = current, !.done = (current = p.total)]
    IN  [q EXCEPT !.updates = Append(@, [total |-> q.total, current |-> q.current,
                                          done |-> q.done, progress |-> ProgressPercent(q)])]

\* A last chunk that takes what is left along when that is less than a chunk.
ChunkLongLast(p) ==
    SetCurrent(p, IF p.total - p.current < 2 * ChunkSize THEN p.total ELSE p.current + ChunkSize)

\* One chunk is flushed to the transport (upload) or received (download).
Chunk(p) == SetCurrent(p, p.current + NextChunk(p))

\* ---- rpc decorators (packages/rpc/src/decorators.ts) -------------------------
\* A class, its parent class, and what their prototype chain ends with.
Classes == {"Sub", "Base"}

Null == "null"

GetPrototypeOf(target) ==
    CASE target = "Sub" -> "Base"
      [] target = "Base" -> "Function.prototype"
      [] target = "Function.prototype" -> "Object.prototype"
      [] OTHER -> Null

\* The action names, in the order the decorators added them.
ActionNames == <<"a", "b">>

Names == {ActionNames[i] : i \in DOMAIN ActionNames}

Undefined == "undefined"

\* new RpcAction; declared tells whether addAction put it into the map.  The
\* two flags are "true", "false" or Undefined.
NoAction ==
    [declared |-> FALSE, groups |-> <<>>, data |-> 0,
     strictSerialization |-> Undefined, logValidationErrors |-> Undefined]

\* An action with @rpc.group(...groups) and, if value is not 0,
\* @rpc.data('k', value).
RpcAction(groups, value) == [NoAction EXCEPT !.declared = TRUE, !.groups = groups, !.data = value]

\* new RpcController, for a class no decorator was applied to yet.
RpcController ==
    [strictSerialization |-> "true", logValidationErrors |-> "false",
     actions |-> [n \in Names |-> NoAction]]

\* The group lists and data values the decorators are applied with.
GroupLists == {<<>>, <<"g">>, <<"h">>}

DataValues == {0, 1, 2}

\* No class is decorated.
Undecorated ==
    /\ rpcClass = [c \in Classes |-> RpcController]
    /\ declared = rpcClass
    /\ returned = <<>>

\* Base declares action a; Sub declares b and may declare a again.
Decorated ==
    /\ \E gb \in GroupLists, db \in DataValues, gs \in GroupLists, ds \in DataValues,
          again \in BOOLEAN, strict \in {"true", "false"} :
          rpcClass =
              [c \in Classes |->
                  IF c = "Base"
                  THEN [RpcController EXCEPT !.actions["a"] = RpcAction(gb, db),
                                             !.strictSerialization = strict]
                  ELSE [RpcController EXCEPT
                            !.actions["a"] = IF again THEN RpcAction(gs, ds) ELSE NoAction,
                            !.actions["b"] = RpcAction(<<>>, 0)]]
    /\ declared = rpcClass
    /\ returned = <<>>

\* Object.assign(existing.data, action.data), for the one key 'k'.
Assign(old, new) == IF new # 0 THEN new ELSE old

\* The body of the loop of getActions for the action called name of target.
\* G holds the decorator state D and the results map, which maps a name to
\* the class whose RpcAction object it holds, Null if none.
MergeAction(G, target, name) ==
    LET data == G.D[target]
        action == data.actions[name]
        existing == G.results[name]
    IN  IF existing # Null
        THEN [G EXCEPT !.D[existing].actions[name].groups = @ \o action.groups,
                       !.D[existing].actions[name].data = Assign(@, action.data)]
        ELSE [G EXCEPT !.D[target].actions[name].strictSerialization =
                           IF @ = Undefined THEN data.strictSerialization ELSE @,
                       !.D[target].actions[name].logValidationErrors =
                           IF @ = Undefined THEN data.logValidationErrors ELSE @,
                       !.results[name] = target]

\* for (const action of data.actions.values()) ...
RECURSIVE MergeActions(_, _, _)
MergeActions(G, target, names) ==
    IF names = <<>> THEN G
    ELSE MergeActions(IF G.D[target].actions[Head(names)].declared
                      THEN MergeAction(G, target, Head(names)) ELSE G,
                      target, Tail(names))

\* getActions(target) in decorator state D.
RECURSIVE getActions(_, _)
getActions(D, target) ==
    LET parent == GetPrototypeOf(target)
        results == IF parent # Null THEN getActions(D, parent)
                   ELSE [D |-> D, results |-> [n \in Names |-> Null]]
    IN  IF target \notin Classes THEN results
        ELSE MergeActions(results, target, ActionNames)

\* What a caller reads in the map getActions returned: per name, the groups
\* and data of the action, Null if the map has none.
Read(G) ==
    [n \in Names |->
        IF G.results[n] = Null THEN [groups |-> <<>>, data |-> 0, present |-> FALSE]
        ELSE [groups |-> G.D[G.results[n]].actions[n].groups,
              data |-> G.D[G.results[n]].actions[n].data, present |-> TRUE]]

\* ---- the state record the handlers work on --------------------------------
State ==
    [token |-> token, connected |-> connected, loggedIn |-> loggedIn, messageId |-> messageId,
     connectionTries |-> connectionTries, replies |-> replies,
     connectionPromise |-> connectionPromise, socket |-> socket, attempts |-> attempts,
     calls |-> calls, mq |-> mq, wire |-> wire,
     cachedActionsTypes |-> cachedActionsTypes, gats |-> gats, streams |-> streams,
     entityState |-> entityState, mirrors |-> mirrors,
     recording |-> recording, arrived |-> arrived, handed |-> handed,
     frame |-> NoFrame, outcome |-> "none"]

Task(t, c, k, ok) == [t |-> t, c |-> c, k |-> k, ok |-> ok]

Enq(S, m) == [S EXCEPT !.mq = Append(@, m)]

RECURSIVE EnqResumes(_, _)
EnqResumes(S, cs) ==
    IF cs = <<>> THEN S
    ELSE EnqResumes(Enq(S, Task("resume", Head(cs), 0, FALSE)), Tail(cs))

\* resolve()/reject() of the promise doConnect returned: the first settlement
\* wins, and the awaiting connect() calls are resumed in the order they awaited.
SettleAttempt(S, k, outcome, err) ==
    IF S.attempts[k].promise # "pending" THEN S
    ELSE EnqResumes([S EXCEPT !.attempts[k].promise = outcome,
                              !.attempts[k].err = err,
                              !.attempts[k].reactions = <<>>],
                    S.attempts[k].reactions)

\* doConnect(): count the try, create the socket, return a pending promise.
DoConnect(S) ==
    [S EXCEPT !.connectionTries = @ + 1,
              !.socket = Len(S.attempts) + 1,
              !.attempts = Append(@, [promise |-> "pending", err |-> "none",
                                      ready |-> "connecting", reactions |-> <<>>, auth |-> 0])]

\* `await p` inside connect(): suspend call c on the promise of attempt k.
Await(S, c, k, own) ==
    LET S1 == [S EXCEPT !.calls[c].att = k, !.calls[c].owner = own, !.calls[c].cpc = "await"]
    IN  IF S.attempts[k].promise = "pending"
        THEN [S1 EXCEPT !.attempts[k].reactions = Append(@, c)]
        ELSE Enq(S1, Task("resume", c, 0, FALSE))

\* connect() returns or throws; sendMessage chained .then(send, subject.error) on it.
ConnectReturn(S, c, outcome, err) ==
    LET S1 == [S EXCEPT !.calls[c].cpc = outcome, !.calls[c].cerr = err]
    IN  IF S.calls[c].kind = "connect" THEN S1 ELSE Enq(S1, Task("then", c, 0, FALSE))

\* connect() without the while loop: an attempt in flight is not waited for.
ConnectBodyNoWait(S, c) ==
    IF S.connected THEN ConnectReturn(S, c, "resolved", "none")
    ELSE LET S1 == DoConnect(S)
         IN  Await([S1 EXCEPT !.connectionPromise = S1.socket], c, S1.socket, TRUE)

\* connect() from its while-test on.
ConnectBody(S, c) ==
    IF S.connectionPromise # 0 THEN Await([S EXCEPT !.calls[c].waited = TRUE], c, S.connectionPromise, FALSE)
    ELSE IF S.connected THEN ConnectReturn(S, c, "resolved", "none")
    ELSE LET S1 == DoConnect(S)
         IN  Await([S1 EXCEPT !.connectionPromise = S1.socket], c, S1.socket, TRUE)

\* send(message): throws without a socket, else hands the frame to it.
\* sub is the message's subscribeId, 0 if it has none.
SendSub(S, id, name, sub) ==
    IF S.socket = 0 THEN S
    ELSE [S EXCEPT !.wire = Append(@, [id |-> id, name |-> name, sock |-> S.socket,
                                       ready |-> S.attempts[S.socket].ready, sub |-> sub])]

SendFrame(S, id, name) == SendSub(S, id, name, 0)

\* ---- MessageSubject ------------------------------------------------------
Without(f, i) == [j \in DOMAIN f \ {i} |-> f[j]]

\* close() with a teardown that leaves the routing entry in place.
CloseKeepsEntry(S, c) ==
    [S EXCEPT !.calls[c].subj = IF @ = "open" THEN "completed" ELSE @,
              !.calls[c].teardowns = @ + 1]

\* close(): run the teardown sendMessage gave the subject (delete replies[messageId])
\* and complete the subject.
Close(S, c) ==
    [S EXCEPT !.replies = Without(@, S.calls[c].id),
              !.calls[c].subj = IF @ = "open" THEN "completed" ELSE @,
              !.calls[c].teardowns = @ + 1]

\* What awaits firstAndClose(): authenticate() does, inside socket.onopen, and
\* getActionTypes() does.
AfterFirst(S, c) ==
    IF S.calls[c].kind = "authenticate" THEN Enq(S, Task("authenticate", c, 0, FALSE))
    ELSE IF S.calls[c].gat # 0 THEN Enq(S, Task("getActionTypes", c, 0, FALSE))
    ELSE S

\* ---- stream(): the subscriber of a live exchange -----------------------------
\* resolve(v) of the promise stream() returned: the first settlement wins.
\* unsub tells whether the object handed over carries an unsubscribe teardown.
Resolve(S, s, v, unsub) ==
    IF S.streams[s].promise # "pending" THEN S
    ELSE [S EXCEPT !.streams[s].promise = "resolved", !.streams[s].value = v,
                   !.streams[s].unsub = unsub]

\* reject(error) of the promise stream() returned.
Reject(S, s) ==
    IF S.streams[s].promise # "pending" THEN S ELSE [S EXCEPT !.streams[s].promise = "rejected"]

\* entityState.hasEntitySubject(classType, id)
HasEntitySubject(S, key) == S.entityState[key] # 0

\* entityState.handleEntity(classType, item): find or create the EntitySubject
\* of the item's id.
HandleEntity(S, key) ==
    IF HasEntitySubject(S, key) THEN S
    ELSE [S EXCEPT !.mirrors = Append(@, [key |-> key, content |-> 0, removed |-> FALSE]),
                   !.entityState[key] = Len(S.mirrors) + 1]

\* The subscriber throws: the subscription ends, and the promise stream()
\* returned is left as it is.
StreamThrow(S, s) == [S EXCEPT !.streams[s].thrown = TRUE]

\* The entity branch resolving with an EntitySubject of its own when the
\* entityState has one already.
StreamTypeEntityFresh(S, s, f) ==
    IF ~f.known THEN StreamThrow(S, s)
    ELSE LET H == [S EXCEPT !.mirrors = Append(@, [key |-> f.item, content |-> 0, removed |-> FALSE]),
                            !.entityState[f.item] = IF @ = 0 THEN Len(S.mirrors) + 1 ELSE @]
         IN  Resolve([H EXCEPT !.streams[s].mirror = Len(H.mirrors)], s, "entity",
                     ~HasEntitySubject(S, f.item))

\* The entity branch registering the unsubscribe teardown on every
\* EntitySubject it resolves with.
StreamTypeEntityAlwaysRegisters(S, s, f) ==
    IF ~f.known THEN StreamThrow(S, s)
    ELSE LET H == HandleEntity(S, f.item)
         IN  Resolve([H EXCEPT !.streams[s].mirror = H.entityState[f.item]], s, "entity", TRUE)

\* returnType 'entity' with an item: resolve with the EntitySubject of the
\* item's id; it gets the unsubscribe teardown only when it is new to the
\* entityState.
StreamTypeEntity(S, s, f) ==
    IF ~f.known THEN StreamThrow(S, s)
    ELSE LET H == HandleEntity(S, f.item)
         IN  Resolve([H EXCEPT !.streams[s].mirror = H.entityState[f.item]], s, "entity",
                     ~HasEntitySubject(S, f.item))

\* The 'type' frame handler giving a collection no teardown.
StreamTypeCollectionNoTeardown(S, s, f) ==
    LET T == [S EXCEPT !.streams[s].typed = TRUE]
    IN  CASE f.returnType = "subject" ->
                Resolve([T EXCEPT !.streams[s].sbs = "open"], s, "subject", FALSE)
          [] f.returnType = "entity" ->
                IF f.item = 0 THEN Resolve(T, s, "emptyEntity", FALSE)
                ELSE StreamTypeEntity(T, s, f)
          [] f.returnType = "observable" ->
                Resolve([T EXCEPT !.streams[s].returnValue = "observable"], s, "observable", FALSE)
          [] f.returnType = "collection" ->
                IF ~f.known THEN StreamThrow(T, s)
                ELSE Resolve([T EXCEPT !.streams[s].returnValue = "collection",
                                       !.streams[s].coll = "open"],
                             s, "collection", FALSE)
          [] OTHER -> T

\* A 'type' frame: build the live object its returnType names and resolve
\* with it.
StreamType(S, s, f) ==
    LET T == [S EXCEPT !.streams[s].typed = TRUE]
    IN  CASE f.returnType = "subject" ->
                Resolve([T EXCEPT !.streams[s].sbs = "open"], s, "subject", FALSE)
          [] f.returnType = "entity" ->
                IF f.item = 0 THEN Resolve(T, s, "emptyEntity", FALSE)
                ELSE StreamTypeEntity(T, s, f)
          [] f.returnType = "observable" ->
                Resolve([T EXCEPT !.streams[s].returnValue = "observable"], s, "observable", FALSE)
          [] f.returnType = "collection" ->
                IF ~f.known THEN StreamThrow(T, s)
                ELSE Resolve([T EXCEPT !.streams[s].returnValue = "collection",
                                       !.streams[s].coll = "open"],
                             s, "collection", TRUE)
          [] OTHER -> T

\* streamBehaviorSubject.next(...): a new value, while the subject is open.
SubjectValue(S, s) ==
    IF S.streams[s].sbs = "open" THEN [S EXCEPT !.streams[s].content = 1 - @] ELSE S

\* entityState.handleCollectionNext(returnValue, reply.next): the diff is
\* applied to a collection that is registered and open.
HandleCollectionNext(S, s) ==
    IF S.streams[s].coll = "open" /\ ~S.streams[s].dereg
    THEN [S EXCEPT !.streams[s].content = 1 - @] ELSE S

\* A 'complete' frame: finalize the collection and the scalar stream.
StreamComplete(S, s) ==
    [S EXCEPT !.streams[s].coll = IF @ = "open" THEN "completed" ELSE @,
              !.streams[s].sbs = IF @ = "open" THEN "completed" ELSE @]

\* An 'error' frame: the error goes to the collection, else to the scalar
\* stream, else to the promise.
StreamError(S, s) ==
    IF S.streams[s].returnValue = "collection"
    THEN [S EXCEPT !.streams[s].coll = IF @ = "open" THEN "errored" ELSE @]
    ELSE IF S.streams[s].sbs # "none"
    THEN [S EXCEPT !.streams[s].sbs = IF @ = "open" THEN "errored" ELSE @]
    ELSE Reject(S, s)

\* deserializeResult(next): when the declared return type is an Entity the
\* client has no class for, reject and close the subject; the value handed on
\* is then undefined.
DeserializeResult(S, s) ==
    IF Unregistered(S.gats[S.streams[s].gat].desc) THEN Close(Reject(S, s), S.streams[s].exch)
    ELSE S

\* A 'next/json' frame: resolve with the decoded value.
StreamJson(S, s) == Resolve(DeserializeResult(S, s), s, "json", FALSE)

\* A 'next/subject' frame.
StreamSubject(S, s) ==
    IF S.streams[s].sbs = "none" THEN S ELSE SubjectValue(DeserializeResult(S, s), s)

\* subscribers[reply.subscribeId] is set.
Registered(S, s, n) == n \in DOMAIN S.streams[s].subs /\ S.streams[s].subs[n].registered

\* A 'next/observable' frame: the subscriber registered under its
\* subscribeId gets the decoded value.
ObservableNext(S, s, n) ==
    IF ~Registered(S, s, n) THEN S
    ELSE LET D == DeserializeResult(S, s)
         IN  IF S.streams[s].subs[n].state = "open"
             THEN [D EXCEPT !.streams[s].subs[n].content = 1 - @] ELSE D

\* An 'error/observable' or 'complete/observable' frame: the subscriber
\* registered under its subscribeId ends as `how`, which runs its teardown
\* (the observable/unsubscribe message); the registration is deleted and the
\* subject closed.
ObservableEnd(S, s, n, how) ==
    LET S1 == IF Registered(S, s, n) /\ S.streams[s].subs[n].state = "open"
              THEN SendSub([S EXCEPT !.streams[s].subs[n].state = how],
                           S.calls[S.streams[s].exch].id, "observable/unsubscribe", n)
              ELSE S
        S2 == IF n \in DOMAIN S.streams[s].subs
              THEN [S1 EXCEPT !.streams[s].subs[n].registered = FALSE] ELSE S1
    IN  Close(S2, S.streams[s].exch)

\* The frames of a push stream's subscriptions.
StreamObservable(S, s, f) ==
    CASE f.type = "next/observable"     -> ObservableNext(S, s, f.subscribeId)
      [] f.type = "error/observable"    -> ObservableEnd(S, s, f.subscribeId, "errored")
      [] f.type = "complete/observable" -> ObservableEnd(S, s, f.subscribeId, "completed")
      [] OTHER                          -> S

\* The subscriber with a 'complete' frame that also runs the live object's
\* unsubscribe teardown.
StreamReplyUnsubscribesOnComplete(S, s, f) ==
    LET c == S.streams[s].exch
    IN  CASE f.type = "type"            -> StreamType(S, s, f)
          [] f.type = "next/json"       -> StreamJson(S, s)
          [] f.type = "next/subject"    -> StreamSubject(S, s)
          [] f.type = "next/collection" -> HandleCollectionNext(S, s)
          [] f.type = "complete"        ->
                Close(SendFrame(StreamComplete(S, s), S.calls[c].id, "collection/unsubscribe"), c)
          [] f.type = "error"           -> Close(StreamError(S, s), c)
          [] OTHER                      -> StreamObservable(S, s, f)

\* The subscriber without subject.close() on a terminal frame.
StreamReplyStaysOpen(S, s, f) ==
    CASE f.type = "type"            -> StreamType(S, s, f)
      [] f.type = "next/json"       -> StreamJson(S, s)
      [] f.type = "next/subject"    -> StreamSubject(S, s)
      [] f.type = "next/collection" -> HandleCollectionNext(S, s)
      [] f.type = "complete"        -> StreamComplete(S, s)
      [] f.type = "error"           -> StreamError(S, s)
      [] OTHER                      -> StreamObservable(S, s, f)

\* subject.subscribe((reply) => ...) in stream(): what the subscriber does
\* with frame f of exchange c.
StreamReply(S, s, f) ==
    LET c == S.streams[s].exch
    IN  CASE f.type = "type"            -> StreamType(S, s, f)
          [] f.type = "next/json"       -> StreamJson(S, s)
          [] f.type = "next/subject"    -> StreamSubject(S, s)
          [] f.type = "next/collection" -> HandleCollectionNext(S, s)
          [] f.type = "complete"        -> Close(StreamComplete(S, s), c)
          [] f.type = "error"           -> Close(StreamError(S, s), c)
          [] OTHER                      -> StreamObservable(S, s, f)

\* firstAndClose() without the teardown added to its subscription.
SubjectNextNoClose(S, c, f) ==
    IF S.calls[c].subj # "open" THEN S
    ELSE AfterFirst([S EXCEPT !.calls[c].res = "resolved", !.calls[c].val = f], c)

\* The subscriber of call c is called with the frame that arrived last.
Hand(S, c) ==
    IF S.recording THEN [S EXCEPT !.handed = Append(@, [c |-> c, n |-> Len(S.arrived)])] ELSE S

\* subject.next(reply).  The subscriber is stream()'s, or firstAndClose()'s:
\* resolve with the first value, then the subscription's teardown closes the
\* subject.
SubjectNext(S, c, f) ==
    IF S.calls[c].subj # "open" THEN S
    ELSE IF S.calls[c].stream # 0
    THEN IF S.streams[S.calls[c].stream].thrown THEN S
         ELSE StreamReply(Hand(S, c), S.calls[c].stream, f)
    ELSE AfterFirst(Close([Hand(S, c) EXCEPT !.calls[c].res = "resolved", !.calls[c].val = f], c), c)

\* subject.error(error): the firstAndClose() subscriber rejects, then closes;
\* stream()'s subscriber has no error callback.
SubjectError(S, c, err) ==
    IF S.calls[c].subj # "open" THEN S
    ELSE IF S.calls[c].stream # 0 THEN [S EXCEPT !.calls[c].subj = "errored"]
    ELSE AfterFirst(Close([S EXCEPT !.calls[c].subj = "errored", !.calls[c].res = "rejected",
                                    !.calls[c].rerr = err], c), c)

\* ---- SocketClient -------------------------------------------------------
\* send(message): the frame sendMessage built for call c.
Send(S, c) == SendFrame(S, S.calls[c].id, S.calls[c].kind)

\* The two callbacks sendMessage chained on connect().
Then(S, c) ==
    IF S.calls[c].cpc = "resolved" THEN Send(S, c) ELSE SubjectError(S, c, S.calls[c].cerr)

\* The counter restarting at 1 whenever the client is not connected.
NextMessageIdRestart(S) == IF S.connected THEN S.messageId + 1 ELSE 1

\* this.messageId++
NextMessageId(S) == S.messageId + 1

\* A connect() or sendMessage() invocation.  For sendMessage: the state of the
\* MessageSubject it returned (subj), how often the subject's teardown ran
\* (teardowns), and who listens: the getActionTypes() invocation gat or the
\* stream() invocation stream when not 0, else a bare firstAndClose(), whose
\* promise is res / val / rerr.
NewCall(kind, id, g, s) ==
    [kind |-> kind, id |-> id, cpc |-> "start", att |-> 0, owner |-> FALSE, waited |-> FALSE,
     cerr |-> "none", subj |-> IF kind = "connect" THEN "none" ELSE "open",
     res |-> IF kind = "connect" \/ s # 0 THEN "none" ELSE "pending", val |-> NoFrame,
     rerr |-> "none", teardowns |-> 0, gat |-> g, stream |-> s]

\* sendMessage(message), followed by firstAndClose() on the subject it returns
\* unless stream() s subscribes to it.
SendMessage(S, kind, g, s) ==
    LET id == NextMessageId(S)
        c  == Len(S.calls) + 1
    IN  ConnectBody([S EXCEPT !.messageId = id,
                              !.calls = Append(@, NewCall(kind, id, g, s)),
                              !.replies = [i \in DOMAIN @ \cup {id} |-> IF i = id THEN c ELSE @[i]]],
                    c)

\* connect() called by the application.
Connect(S) ==
    ConnectBody([S EXCEPT !.calls = Append(@, NewCall("connect", 0, 0, 0))], Len(S.calls) + 1)

\* getActionTypes() returns or throws; stream() s, if any, awaits it.
GetActionTypesReturn(S, g, pc, err) ==
    LET S1 == [S EXCEPT !.gats[g].pc = pc, !.gats[g].err = err,
                        !.gats[g].desc = IF pc = "returned" THEN S.cachedActionsTypes[S.gats[g].pair]
                                         ELSE 0]
    IN  IF S.gats[g].stream = 0 THEN S1 ELSE Enq(S1, Task("stream", S.gats[g].stream, 0, FALSE))

\* getActionTypes(controller, actionName) up to its await: a cached pair is
\* returned at once, anything else is asked for.
GetActionTypes(S, p, s) ==
    LET g  == Len(S.gats) + 1
        S1 == [S EXCEPT !.gats = Append(@, [pair |-> p, pc |-> "await", exch |-> 0, desc |-> 0,
                                            err |-> "none", stream |-> s])]
    IN  IF S.cachedActionsTypes[p] # 0 THEN GetActionTypesReturn(S1, g, "returned", "none")
        ELSE SendMessage([S1 EXCEPT !.gats[g].exch = Len(S.calls) + 1], "actionTypes", g, 0)

\* getActionTypes() caching whatever the server answered.
GetActionTypesCacheAny(S, c) ==
    LET g == S.calls[c].gat
    IN  IF S.calls[c].res = "rejected" THEN GetActionTypesReturn(S, g, "threw", S.calls[c].rerr)
        ELSE GetActionTypesReturn(
                 [S EXCEPT !.cachedActionsTypes[S.gats[g].pair] = IF S.calls[c].val.desc = 0 THEN 1
                                                                  ELSE S.calls[c].val.desc],
                 g, "returned", "none")

\* getActionTypes() taking an 'error' reply for an answer it cannot read.
GetActionTypesErrorUnread(S, c) ==
    LET g     == S.calls[c].gat
        reply == S.calls[c].val
    IN  IF S.calls[c].res = "rejected" THEN GetActionTypesReturn(S, g, "threw", S.calls[c].rerr)
        ELSE IF reply.type = "actionTypes/result"
        THEN GetActionTypesReturn([S EXCEPT !.cachedActionsTypes[S.gats[g].pair] = reply.desc],
                                  g, "returned", "none")
        ELSE GetActionTypesReturn(S, g, "threw", "InvalidMessage")

\* getActionTypes() after `await this.sendMessage(...).firstAndClose()`.
GetActionTypesResume(S, c) ==
    LET g     == S.calls[c].gat
        reply == S.calls[c].val
    IN  IF S.calls[c].res = "rejected" THEN GetActionTypesReturn(S, g, "threw", S.calls[c].rerr)
        ELSE IF reply.type = "error" THEN GetActionTypesReturn(S, g, "threw", "Error")
        ELSE IF reply.type = "actionTypes/result"
        THEN GetActionTypesReturn([S EXCEPT !.cachedActionsTypes[S.gats[g].pair] = reply.desc],
                                  g, "returned", "none")
        ELSE GetActionTypesReturn(S, g, "threw", "InvalidMessage")

\* stream(controller, name) up to `await this.getActionTypes(controller, name)`.
Stream(S, p) ==
    GetActionTypes([S EXCEPT !.streams = Append(@,
                        [pair |-> p, pc |-> "types", gat |-> Len(S.gats) + 1, exch |-> 0,
                         typed |-> FALSE, promise |-> "pending", value |-> "none", unsub |-> FALSE,
                         returnValue |-> "none", sbs |-> "none", coll |-> "none", content |-> 0,
                         released |-> FALSE, dereg |-> FALSE, thrown |-> FALSE, mirror |-> 0,
                         subs |-> <<>>])],
                   p, Len(S.streams) + 1)

\* stream() after the await: a getActionTypes() that threw rejects the
\* promise, else the action is sent and its subject subscribed to.
StreamResume(S, s) ==
    IF S.gats[S.streams[s].gat].pc = "threw"
    THEN Reject([S EXCEPT !.streams[s].pc = "failed"], s)
    ELSE SendMessage([S EXCEPT !.streams[s].pc = "subscribed", !.streams[s].exch = Len(S.calls) + 1],
                     "action", 0, s)

\* subscribe() giving every subscriber the subscribeId 1.
SubscribeSameId(S, s) ==
    LET n  == Len(S.streams[s].subs) + 1
        S1 == [S EXCEPT !.streams[s].subs =
                            Append(@, [state |-> "open", registered |-> TRUE, content |-> 0])]
    IN  IF S.socket = 0 THEN [S1 EXCEPT !.streams[s].subs[n].state = "errored"]
        ELSE SendSub(S1, S.calls[S.streams[s].exch].id, "observable/subscribe", 1)

\* subscribe() on the Observable stream() s resolved with: the next
\* subscriberId, the observer registered under it, the observable/subscribe
\* message.  Without a socket send() throws and the observer gets the error.
Subscribe(S, s) ==
    LET n  == Len(S.streams[s].subs) + 1
        S1 == [S EXCEPT !.streams[s].subs =
                            Append(@, [state |-> "open", registered |-> TRUE, content |-> 0])]
    IN  IF S.socket = 0 THEN [S1 EXCEPT !.streams[s].subs[n].state = "errored"]
        ELSE SendSub(S1, S.calls[S.streams[s].exch].id, "observable/subscribe", n)

\* unsubscribe() of subscription n: the observable/unsubscribe message.
Unsubscribe(S, s, n) ==
    SendSub([S EXCEPT !.streams[s].subs[n].state = "unsubscribed"],
            S.calls[S.streams[s].exch].id, "observable/unsubscribe", n)

\* The streams that hold EntitySubject m and have not released it.
Holders(S, m) ==
    {t \in DOMAIN S.streams :
        S.streams[t].value = "entity" /\ S.streams[t].mirror = m /\ ~S.streams[t].released}

\* An EntitySubject its last holder released leaves the entityState.
Forget(S, m) ==
    IF m = 0 \/ Holders(S, m) # {} \/ S.mirrors[m].removed THEN S
    ELSE [S EXCEPT !.mirrors[m].removed = TRUE, !.entityState[S.mirrors[m].key] = 0]

\* The consumer releases the live object stream() resolved with: the
\* teardown registered on it, if any, takes a collection out of the
\* entityState (unsubscribeCollection) and sends the unsubscribe frame.
ReleaseObject(S, s) ==
    LET S1 == Forget([S EXCEPT !.streams[s].released = TRUE],
                     IF S.streams[s].value = "entity" THEN S.streams[s].mirror ELSE 0)
    IN  IF ~S.streams[s].unsub THEN S1
        ELSE IF S.streams[s].value = "entity"
        THEN SendFrame(S1, S.calls[S.streams[s].exch].id, "entity/unsubscribe")
        ELSE SendFrame([S1 EXCEPT !.streams[s].dereg = TRUE], S.calls[S.streams[s].exch].id,
                       "collection/unsubscribe")

\* connect() resumed after `await this.connectionPromise`.
Resume(S, c) ==
    LET a == S.attempts[S.calls[c].att]
    IN  IF S.calls[c].owner
        THEN LET S1 == [S EXCEPT !.connectionPromise = 0]
             IN  IF a.promise = "rejected" THEN ConnectReturn(S1, c, "rejected", a.err)
                 ELSE ConnectReturn(S1, c, "resolved", "none")
        ELSE IF a.promise = "rejected" THEN ConnectReturn(S, c, "rejected", a.err)
             ELSE ConnectBody(S, c)

\* authenticate() after its firstAndClose() settled; k is the attempt whose
\* onopen awaits it.  A rejection or an 'error' reply throws into onopen,
\* which then neither resolves nor rejects.
Authenticate(S, c, k) ==
    IF S.calls[c].res = "rejected" THEN S
    ELSE LET f  == S.calls[c].val
             S1 == IF f.type = "authenticate/result" THEN [S EXCEPT !.loggedIn = f.result] ELSE S
         IN  IF f.type = "error" THEN S1
             ELSE Enq(S1, Task("onopenAuth", 0, k, S1.loggedIn))

\* socket.onopen after `await this.authenticate()`.
OnOpenAuth(S, k, ok) ==
    IF ~ok THEN SettleAttempt(S, k, "rejected", "AuthorizationError")
    ELSE Enq(S, Task("onopenFin", 0, k, FALSE))

\* socket.onopen after `await this.onConnected()`.
OnOpenFin(S, k) ==
    SettleAttempt([S EXCEPT !.connected = TRUE, !.connectionTries = 0], k, "resolved", "none")

\* socket.onopen up to its first await.
OnOpen(S, k) ==
    IF S.token
    THEN SendMessage([S EXCEPT !.attempts[k].auth = Len(S.calls) + 1], "authenticate", 0, 0)
    ELSE Enq(S, Task("onopenFin", 0, k, FALSE))

\* socket.onerror rejecting whatever connectionTries is.
OnErrorAlwaysReject(S, k) ==
    SettleAttempt([S EXCEPT !.connected = FALSE], k, "rejected", "ConnectionError")

\* socket.onerror
OnError(S, k) ==
    LET S1 == [S EXCEPT !.connected = FALSE]
    IN  IF S.connectionTries = 1 THEN SettleAttempt(S1, k, "rejected", "ConnectionError") ELSE S1

\* disconnect(): closing a socket that is still connecting makes it report an error.
Disconnect(S) ==
    LET S1 == [S EXCEPT !.connected = FALSE, !.loggedIn = FALSE]
    IN  IF S.socket = 0 THEN S1
        ELSE [S1 EXCEPT !.attempts[S.socket].ready = IF @ = "connecting" THEN "closing" ELSE "closed",
                        !.socket = 0]

\* The test with entity/update forgotten.
IsEntityMessageNoUpdate(f) ==
    f.type = "entity/remove" \/ f.type = "entity/patch" \/ f.type = "entity/removeMany"

IsEntityMessage(f) ==
    f.type = "entity/remove" \/ f.type = "entity/patch" \/ f.type = "entity/update"
        \/ f.type = "entity/removeMany"

Lowest(ids) == CHOOSE i \in ids : \A j \in ids : i <= j

\* A lookup that ignores the frame's id and takes the oldest registered callback.
ReplyTargetOldest(S, f) ==
    IF DOMAIN S.replies # {} THEN S.replies[Lowest(DOMAIN S.replies)] ELSE 0

\* A lookup that falls back to the oldest registered callback for an unknown id.
ReplyTargetFallback(S, f) ==
    IF f.id \in DOMAIN S.replies THEN S.replies[f.id] ELSE ReplyTargetOldest(S, f)

\* this.replies[message.id]: the call whose subject the callback feeds, 0 if none.
ReplyTarget(S, f) == IF f.id \in DOMAIN S.replies THEN S.replies[f.id] ELSE 0

\* entityState.handleEntityMessage(message): a patch or an update finds or
\* creates the EntitySubject of the entity and changes it in place; a remove
\* marks it removed and takes it out of the entityState.
HandleEntityMessage(S, f) ==
    IF f.item \notin EntityKeys THEN S
    ELSE IF f.type \in {"entity/patch", "entity/update"}
    THEN LET H == HandleEntity(S, f.item)
         IN  [H EXCEPT !.mirrors[H.entityState[f.item]].content = 1 - @]
    ELSE IF ~HasEntitySubject(S, f.item) THEN S
    ELSE [S EXCEPT !.mirrors[S.entityState[f.item]].removed = TRUE, !.entityState[f.item] = 0]

\* onMessage is called with frame f.
Arrive(S, f) == IF S.recording THEN [S EXCEPT !.arrived = Append(@, f)] ELSE S

\* onMessage(event).  The outcome tells what became of the frame: "threw",
\* "entity" (handed to this.entityState.handleEntityMessage), "ignored",
\* "delivered" (handed to the callback in replies) or "logged" (console.error).
OnMessage(S0, f) ==
    LET S == Arrive(S0, f)
    IN  IF f = NullFrame THEN [S EXCEPT !.outcome = "threw"]
        ELSE IF IsEntityMessage(f) THEN [HandleEntityMessage(S, f) EXCEPT !.outcome = "entity"]
        ELSE IF f.type = "channel" THEN [S EXCEPT !.outcome = "ignored"]
        ELSE IF ReplyTarget(S, f) # 0
             THEN [SubjectNext(S, ReplyTarget(S, f), f) EXCEPT !.outcome = "delivered"]
             ELSE [S EXCEPT !.outcome = "logged"]

\* One microtask.
RunTask(S, m) ==
    CASE m.t = "resume"       -> Resume(S, m.c)
      [] m.t = "then"         -> Then(S, m.c)
      [] m.t = "authenticate" -> Authenticate(S, m.c, CHOOSE k \in DOMAIN S.attempts : S.attempts[k].auth = m.c)
      [] m.t = "onopenAuth"   -> OnOpenAuth(S, m.k, m.ok)
      [] m.t = "onopenFin"    -> OnOpenFin(S, m.k)
      [] m.t = "getActionTypes" -> GetActionTypesResume(S, m.c)
      [] m.t = "stream"       -> StreamResume(S, m.c)

\* ---- the state machine ----------------------------------------------------
InBounds(S) ==
    /\ Len(S.calls) <= MaxCalls
    /\ Len(S.attempts) <= MaxAttempts
    /\ Len(S.gats) <= MaxGets
    /\ Len(S.mirrors) <= MaxMirrors

Commit(S) ==
    /\ InBounds(S)
    /\ connected' = S.connected
    /\ loggedIn' = S.loggedIn
    /\ messageId' = S.messageId
    /\ connectionTries' = S.connectionTries
    /\ replies' = S.replies
    /\ connectionPromise' = S.connectionPromise
    /\ socket' = S.socket
    /\ attempts' = S.attempts
    /\ calls' = S.calls
    /\ mq' = S.mq
    /\ wire' = S.wire
    /\ lastEvent' = [frame |-> S.frame, outcome |-> S.outcome]
    /\ cachedActionsTypes' = S.cachedActionsTypes
    /\ gats' = S.gats
    /\ streams' = S.streams
    /\ entityState' = S.entityState
    /\ mirrors' = S.mirrors
    /\ arrived' = S.arrived
    /\ handed' = S.handed
    /\ UNCHANGED <<token, serverAccepts, recording, transfers, rpcClass, declared, returned>>

\* The client after its constructor, with nothing recorded.
Constructed ==
    /\ connected = FALSE
    /\ loggedIn = FALSE
    /\ messageId = 0
    /\ connectionTries = 0
    /\ replies = <<>>
    /\ connectionPromise = 0
    /\ socket = 0
    /\ attempts = <<>>
    /\ calls = <<>>
    /\ mq = <<>>
    /\ wire = <<>>
    /\ lastEvent = NoEvent
    /\ cachedActionsTypes = [p \in Pairs |-> 0]
    /\ gats = <<>>
    /\ streams = <<>>
    /\ entityState = [k \in EntityKeys |-> 0]
    /\ mirrors = <<>>
    /\ arrived = <<>>
    /\ handed = <<>>
    /\ transfers = [d \in Directions |-> NoProgress]

Init ==
    /\ token \in BOOLEAN
    /\ serverAccepts \in IF token THEN BOOLEAN ELSE {FALSE}
    /\ recording = FALSE
    /\ Constructed
    /\ Undecorated

\* A new task starts only when the previous one and its microtasks are over.
Idle == mq = <<>> /\ lastEvent = NoEvent

\* The application calls connect().
CallConnect ==
    /\ Idle
    /\ Commit(Connect(State))

\* The application issues a one-shot call: sendMessage(...).firstAndClose().
CallSendMessage ==
    /\ Idle
    /\ Commit(SendMessage(State, "actionTypes", 0, 0))

\* The application calls disconnect().
CallDisconnect ==
    /\ Idle
    /\ Commit(Disconnect(State))

\* The socket of attempt k reports open.
SocketOpen(k) ==
    /\ Idle
    /\ attempts[k].ready = "connecting"
    /\ Commit(OnOpen([State EXCEPT !.attempts[k].ready = "open"], k))

\* The socket of attempt k reports an error and is closed.
SocketError(k) ==
    /\ Idle
    /\ attempts[k].ready \in {"connecting", "open", "closing"}
    /\ Commit(OnError([State EXCEPT !.attempts[k].ready = "closed"], k))

\* The open socket of attempt k delivers frame f: socket.onmessage runs onMessage.
SocketMessage(k, f) ==
    /\ Idle
    /\ attempts[k].ready = "open"
    /\ Commit([OnMessage(State, f) EXCEPT !.frame = f])

\* socket.onmessage returns.
Return ==
    /\ lastEvent # NoEvent
    /\ lastEvent' = NoEvent
    /\ UNCHANGED <<token, serverAccepts, connected, loggedIn, messageId, connectionTries, replies,
                   connectionPromise, socket, attempts, calls, mq, wire,
                   cachedActionsTypes, gats, streams, entityState, mirrors,
                   recording, arrived, handed, transfers, rpcClass, declared, returned>>

\* The next microtask runs.
Microtask ==
    /\ mq # <<>>
    /\ lastEvent = NoEvent
    /\ Commit(RunTask([State EXCEPT !.mq = Tail(@)], Head(mq)))

Next ==
    \/ CallConnect
    \/ CallSendMessage
    \/ CallDisconnect
    \/ \E k \in DOMAIN attempts : SocketOpen(k)
    \/ \E k \in DOMAIN attempts : SocketError(k)
    \/ \E k \in DOMAIN attempts : \E f \in Frames : SocketMessage(k, f)
    \/ Return
    \/ Microtask

Spec == Init /\ [][Next]_vars

\* ---- the action-type cache: getActionTypes() on a client without a token ----
\* What the server may answer a type request with: a descriptor, an error, or
\* a frame of another kind.
TypeFrames ==
    {Frame("actionTypes/result", i, FALSE, d, "none", 0) : i \in FrameIds, d \in Descs}
    \cup {Frame(t, i, FALSE, 0, "none", 0) : t \in {"error", "next/json"}, i \in FrameIds}

InitTypes == Init /\ token = FALSE

\* The application calls getActionTypes(controller, action).
CallGetActionTypes(p) ==
    /\ Idle
    /\ Commit(GetActionTypes(State, p, 0))

\* The open socket of attempt k delivers frame f: socket.onmessage runs
\* onMessage and returns.
SocketDelivers(k, f) ==
    /\ Idle
    /\ attempts[k].ready = "open"
    /\ Commit([OnMessage(State, f) EXCEPT !.outcome = "none"])

NextTypes ==
    \/ \E p \in Pairs : CallGetActionTypes(p)
    \/ CallDisconnect
    \/ \E k \in DOMAIN attempts : SocketOpen(k)
    \/ \E k \in DOMAIN attempts : SocketError(k)
    \/ \E k \in DOMAIN attempts : \E f \in TypeFrames : SocketDelivers(k, f)
    \/ Microtask

SpecTypes == InitTypes /\ [][NextTypes]_vars

\* ---- live exchanges: stream() on a client without a token ----------------------
\* The pair stream() is called with.
StreamPairs == {<<"c", "a">>}

\* The server answers in the protocol of the request: a type request
\* (exchange in FetchIds) with the descriptor or an error, an action
\* (exchange in ActionIds) with the frames of a live exchange, at any time
\* and any number of times.  For an exchange that has no routing entry any
\* more, one frame of each protocol that carries data and one terminal frame
\* stand for all.
FetchIds == {calls[c].id : c \in {d \in DOMAIN calls : calls[d].kind = "actionTypes"}}

ActionIds == {calls[c].id : c \in {d \in DOMAIN calls : calls[d].kind = "action"}}

\* The exchanges that got their 'type' frame: the server classifies an
\* exchange once.
TypedIds == {calls[streams[s].exch].id : s \in {t \in DOMAIN streams : streams[t].typed}}

LiveFrames ==
    {Frame("actionTypes/result", i, FALSE, 1, "none", 0) : i \in FetchIds}
    \cup {Frame("error", i, FALSE, 0, "none", 0) : i \in FetchIds \cap DOMAIN replies}
    \cup {Frame("type", i, FALSE, 0, rt, 0) :
            rt \in {"subject", "observable", "collection"}, i \in ActionIds \ TypedIds}
    \cup {Frame("type", i, FALSE, 0, "entity", it) : it \in {0, 1}, i \in ActionIds \ TypedIds}
    \cup {Frame(t, i, FALSE, 0, "none", 0) :
            t \in {"next/json", "next/subject", "next/collection", "complete", "error"},
            i \in ActionIds \cap DOMAIN replies}
    \cup {Frame(t, i, FALSE, 0, "none", 0) :
            t \in {"next/collection", "complete"}, i \in ActionIds \ DOMAIN replies}

\* The application calls stream(controller, name).
CallStream(p) ==
    /\ Idle
    /\ Len(streams) < MaxStreams
    /\ Commit(Stream(State, p))

\* The holder of the MessageSubject of live exchange c calls close().
CallClose(c) ==
    /\ Idle
    /\ calls[c].stream # 0
    /\ calls[c].teardowns < MaxCloses
    /\ Commit(Close(State, c))

\* The consumer releases the entity or the collection stream() s gave it.
Release(s) ==
    /\ Idle
    /\ streams[s].value \in {"entity", "collection"}
    /\ ~streams[s].released
    /\ Commit(ReleaseObject(State, s))

\* Live exchanges whose consumer releases what stream() gave it, on a
\* connection the application may drop.
NextLive ==
    \/ \E p \in StreamPairs : CallStream(p)
    \/ \E s \in DOMAIN streams : Release(s)
    \/ CallDisconnect
    \/ \E k \in DOMAIN attempts : SocketOpen(k)
    \/ \E k \in DOMAIN attempts : \E f \in LiveFrames : SocketDelivers(k, f)
    \/ Microtask

SpecLive == InitTypes /\ [][NextLive]_vars

\* Live exchanges whose MessageSubject is closed by hand.
NextClose ==
    \/ \E p \in StreamPairs : CallStream(p)
    \/ \E c \in DOMAIN calls : CallClose(c)
    \/ CallDisconnect
    \/ \E k \in DOMAIN attempts : SocketOpen(k)
    \/ \E k \in DOMAIN attempts : \E f \in LiveFrames : SocketDelivers(k, f)
    \/ Microtask

SpecClose == InitTypes /\ [][NextClose]_vars

\* ---- shared entities: stream() calls the server answers with the same entity ----
\* The server answers a type request with the descriptor and an action with
\* an entity (item 1) or with none (item 0), and sends patch and remove
\* notifications about entity 1.
EntityFrames ==
    {Frame("actionTypes/result", i, FALSE, 1, "none", 0) : i \in FetchIds}
    \cup {Frame("type", i, FALSE, 0, "entity", it) : it \in {0} \cup EntityKeys,
                                                    i \in ActionIds \ TypedIds}
    \cup {Frame(t, 0, FALSE, 0, "none", k) : t \in {"entity/patch", "entity/remove"},
                                            k \in EntityKeys}

\* The application calls stream(controller, name), up to MaxHolders times.
CallStreamShared(p) ==
    /\ Idle
    /\ Len(streams) < MaxHolders
    /\ Commit(Stream(State, p))

NextEntity ==
    \/ \E p \in StreamPairs : CallStreamShared(p)
    \/ \E s \in DOMAIN streams : Release(s)
    \/ \E k \in DOMAIN attempts : SocketOpen(k)
    \/ \E k \in DOMAIN attempts : \E f \in EntityFrames : SocketDelivers(k, f)
    \/ Microtask

SpecEntity == InitTypes /\ [][NextEntity]_vars

\* ---- push streams: subscriptions on the Observable of one exchange ----------
SubscribeIds == 1 .. MaxSubs

\* Frame t of exchange id i for the subscription n.
SubFrame(t, i, n) == [Frame(t, i, FALSE, 0, "none", 0) EXCEPT !.subscribeId = n]

\* The server answers a type request with the descriptor, classifies an
\* action as an observable, and sends the frames of its subscriptions.
ObservableFrames ==
    {Frame("actionTypes/result", i, FALSE, 1, "none", 0) : i \in FetchIds}
    \cup {Frame("type", i, FALSE, 0, "observable", 0) : i \in ActionIds \ TypedIds}
    \cup {SubFrame(t, i, n) : t \in {"next/observable", "error/observable", "complete/observable"},
                              i \in ActionIds \cap DOMAIN replies, n \in SubscribeIds}
    \cup {SubFrame("next/observable", i, n) : i \in ActionIds \ DOMAIN replies, n \in SubscribeIds}

\* The consumer subscribes to the Observable stream() s resolved with.
CallSubscribe(s) ==
    /\ Idle
    /\ streams[s].value = "observable"
    /\ Len(streams[s].subs) < MaxSubs
    /\ Commit(Subscribe(State, s))

\* The consumer unsubscribes its open subscription n.
CallUnsubscribe(s, n) ==
    /\ Idle
    /\ streams[s].subs[n].state = "open"
    /\ Commit(Unsubscribe(State, s, n))

\* The application calls stream(controller, name) for the one push stream.
CallStreamOnce(p) ==
    /\ Idle
    /\ streams = <<>>
    /\ Commit(Stream(State, p))

NextObservable ==
    \/ \E p \in StreamPairs : CallStreamOnce(p)
    \/ \E s \in DOMAIN streams : CallSubscribe(s)
    \/ \E s \in DOMAIN streams : \E n \in DOMAIN streams[s].subs : CallUnsubscribe(s, n)
    \/ CallDisconnect
    \/ \E k \in DOMAIN attempts : SocketOpen(k)
    \/ \E k \in DOMAIN attempts : \E f \in ObservableFrames : SocketDelivers(k, f)
    \/ Microtask

SpecObservable == InitTypes /\ [][NextObservable]_vars

\* ---- failures: stream() calls the server answers with what fails them -------
\* The server answers a type request with a descriptor (descriptor 2 declares
\* an Entity the client has no class for) or an error, and an action with a
\* classification the client may have no class for, a value, or a terminal
\* frame.
FailFrames ==
    {Frame("actionTypes/result", i, FALSE, d, "none", 0) : i \in FetchIds, d \in Descs}
    \cup {Frame("error", i, FALSE, 0, "none", 0) : i \in FetchIds \cap DOMAIN replies}
    \cup {[Frame("type", i, FALSE, 0, "entity", 1) EXCEPT !.known = b] :
            b \in BOOLEAN, i \in ActionIds \ TypedIds}
    \cup {[Frame("type", i, FALSE, 0, "collection", 0) EXCEPT !.known = FALSE] :
            i \in ActionIds \ TypedIds}
    \cup {Frame(t, i, FALSE, 0, "none", 0) :
            t \in {"next/json", "complete", "error"}, i \in ActionIds \cap DOMAIN replies}

NextFailures ==
    \/ \E p \in StreamPairs : CallStreamShared(p)
    \/ \E k \in DOMAIN attempts : SocketOpen(k)
    \/ \E k \in DOMAIN attempts : \E f \in FailFrames : SocketMessage(k, f)
    \/ Return
    \/ Microtask

SpecFailures == InitTypes /\ [][NextFailures]_vars

\* ---- ordering: two live exchanges whose frames interleave, recorded ----------
\* The server answers a type request with the descriptor, classifies an
\* action as a subject, and sends values, terminal frames and channel frames
\* under the id of any action, registered or not.
OrderFrames ==
    {Frame("actionTypes/result", i, FALSE, 1, "none", 0) : i \in FetchIds \cap DOMAIN replies}
    \cup {Frame("type", i, FALSE, 0, "subject", 0) : i \in ActionIds \ TypedIds}
    \cup {Frame(t, i, FALSE, 0, "none", 0) :
            t \in {"next/subject", "complete", "channel"}, i \in ActionIds}

InitOrder ==
    /\ token = FALSE
    /\ serverAccepts = FALSE
    /\ recording = TRUE
    /\ Constructed
    /\ Undecorated

\* The open socket of attempt k delivers one more frame of the run.
SocketDeliversNext(k, f) ==
    /\ Len(arrived) < MaxFrames
    /\ SocketDelivers(k, f)

NextOrder ==
    \/ \E p \in StreamPairs : CallStreamShared(p)
    \/ \E k \in DOMAIN attempts : SocketOpen(k)
    \/ \E k \in DOMAIN attempts : \E f \in OrderFrames : SocketDeliversNext(k, f)
    \/ Microtask

SpecOrder == InitOrder /\ [][NextOrder]_vars

\* ---- chunked transfers in both directions -----------------------------------
nonTransfer == <<token, serverAccepts, connected, loggedIn, messageId, connectionTries, replies,
                 connectionPromise, socket, attempts, calls, mq, wire, lastEvent,
                 cachedActionsTypes, gats, streams, entityState, mirrors,
                 recording, arrived, handed, rpcClass, declared, returned>>

\* A message of payload + overhead bytes, more than one chunk, starts in
\* direction d.
TransferStart(d, payload, overhead) ==
    /\ ~transfers[d].started
    /\ payload + overhead > ChunkSize
    /\ transfers' = [transfers EXCEPT ![d] = SetStart([@ EXCEPT !.payload = payload],
                                                      payload + overhead)]
    /\ UNCHANGED nonTransfer

\* The next chunk of the transfer in direction d.
TransferChunk(d) ==
    /\ transfers[d].started
    /\ ~transfers[d].done
    /\ transfers[d].current <= MaxPayload + MaxOverhead
    /\ transfers' = [transfers EXCEPT ![d] = Chunk(@)]
    /\ UNCHANGED nonTransfer

NextChunks ==
    \/ \E d \in Directions : \E payload \in 1 .. MaxPayload : \E overhead \in 0 .. MaxOverhead :
          TransferStart(d, payload, overhead)
    \/ \E d \in Directions : TransferChunk(d)

SpecChunks == InitTypes /\ [][NextChunks]_vars

\* ---- getActions on a class and its subclass -----------------------------------
nonDecorator == <<token, serverAccepts, connected, loggedIn, messageId, connectionTries, replies,
                  connectionPromise, socket, attempts, calls, mq, wire, lastEvent,
                  cachedActionsTypes, gats, streams, entityState, mirrors,
                  recording, arrived, handed, transfers>>

InitActions ==
    /\ token = FALSE
    /\ serverAccepts = FALSE
    /\ recording = FALSE
    /\ Constructed
    /\ Decorated

\* The application calls getActions(target).
CallGetActions(target) ==
    /\ Len(returned) < MaxGetActions
    /\ LET G == getActions(rpcClass, target)
       IN  /\ rpcClass' = G.D
           /\ returned' = Append(returned, [target |-> target, actions |-> Read(G)])
    /\ UNCHANGED declared
    /\ UNCHANGED nonDecorator

NextActions == \E target \in Classes : CallGetActions(target)

SpecActions == InitActions /\ [][NextActions]_vars

\* ---- properties -----------------------------------------------------------
Exchanges == {c \in DOMAIN calls : calls[c].kind # "connect"}

\* Call c's frame was handed to a socket that was open.
Sent(c) == \E i \in DOMAIN wire : wire[i].id = calls[c].id /\ wire[i].ready = "open"

\* Nothing is running or scheduled, and the server owes no reply.
Quiescent == Idle /\ \A c \in Exchanges : calls[c].subj = "open" => ~Sent(c)

\* Everything a message delivery may change, lastEvent aside.
client == <<connected, loggedIn, messageId, connectionTries, replies, connectionPromise, socket,
            attempts, calls, mq, wire>>

\* C1: a one-shot call that resolved did so with a frame carrying the id
\* sendMessage allocated to it, whatever the number of calls pending and the
\* order of the replies.
C1_NoCrossTalk ==
    \A c \in Exchanges : calls[c].res = "resolved" => calls[c].val.id = calls[c].id

\* Two calls were sent before any reply; the reply to the later one came first.
C1_Witness ==
    \E c \in Exchanges : \E d \in Exchanges :
        /\ c < d
        /\ calls[c].kind = "actionTypes" /\ calls[d].kind = "actionTypes"
        /\ Sent(c) /\ calls[c].res = "pending"
        /\ calls[d].res = "resolved" /\ calls[d].val.id = calls[d].id

\* The authenticate call of attempt k awaits the promise of attempt k, which
\* settles only after that call has been answered.
WaitsOnItself(k) ==
    /\ attempts[k].auth # 0
    /\ calls[attempts[k].auth].cpc = "await"
    /\ calls[attempts[k].auth].att = k
    /\ attempts[k].promise = "pending"

\* C2: with a token the server accepts, once the socket is open the
\* handshake does not wait on itself, and when nothing is left to run or to
\* be answered the authenticate frame has been sent and connect() has resolved.
C2_HandshakeCompletes ==
    \A k \in DOMAIN attempts :
        (token /\ serverAccepts /\ attempts[k].ready = "open") =>
            /\ ~WaitsOnItself(k)
            /\ Quiescent => (Sent(attempts[k].auth) /\ attempts[k].promise = "resolved")

\* C3: with a token the server rejects, the connection is never marked open,
\* no action or actionTypes frame reaches the transport, and when nothing is
\* left to run or to be answered connect() has been rejected with
\* AuthorizationError.
C3_RejectedTokenRejectsConnect ==
    (token /\ ~serverAccepts) =>
        /\ ~connected
        /\ \A i \in DOMAIN wire : wire[i].name = "authenticate"
        /\ \A k \in DOMAIN attempts :
              (attempts[k].ready = "open" /\ Quiescent) =>
                  (attempts[k].promise = "rejected" /\ attempts[k].err = "AuthorizationError")

\* C4: every attempt in flight is the one connectionPromise holds (so there
\* is at most one), a connect() that found an attempt in flight never starts
\* one of its own, and it completes as that attempt did.
C4_SingleConnectAttempt ==
    /\ \A k \in DOMAIN attempts : attempts[k].promise = "pending" => connectionPromise = k
    /\ \A c \in DOMAIN calls :
          calls[c].waited =>
              /\ ~calls[c].owner
              /\ calls[c].cpc \in {"resolved", "rejected"} =>
                    /\ calls[c].cpc = attempts[calls[c].att].promise
                    /\ calls[c].cerr = attempts[calls[c].att].err

\* Two callers waited for the same attempt and completed with it.
C4_Witness ==
    \E c \in DOMAIN calls : \E d \in DOMAIN calls :
        /\ c # d
        /\ calls[c].waited /\ calls[d].waited
        /\ calls[c].att = calls[d].att
        /\ calls[c].cpc = "resolved" /\ calls[d].cpc = "resolved"

\* C5: a socket error while connectionTries is 1 rejects the attempt's promise
\* with a connection error, which every connect() awaiting it then throws; a
\* socket error at any other count rejects nothing and resumes nobody.
C5_FirstFailurePropagates ==
    /\ [][\A k \in DOMAIN attempts :
            SocketError(k) =>
                IF connectionTries = 1 /\ attempts[k].promise = "pending"
                THEN attempts'[k].promise = "rejected" /\ attempts'[k].err = "ConnectionError"
                ELSE /\ \A j \in DOMAIN attempts : attempts'[j].promise = attempts[j].promise
                     /\ calls' = calls
                     /\ mq' = mq]_vars
    /\ [](\A c \in DOMAIN calls :
            (Idle /\ calls[c].att # 0 /\ attempts[calls[c].att].err = "ConnectionError") =>
                (calls[c].cpc = "rejected" /\ calls[c].cerr = "ConnectionError"))

\* The first attempt failed and its caller was rejected; the second attempt
\* failed too and its caller is still pending.
C5_Witness ==
    /\ Len(attempts) >= 2
    /\ attempts[1].err = "ConnectionError"
    /\ \E c \in DOMAIN calls : calls[c].att = 1 /\ calls[c].cpc = "rejected"
    /\ attempts[2].ready = "closed" /\ attempts[2].promise = "pending"
    /\ \E c \in DOMAIN calls : calls[c].att = 2 /\ calls[c].cpc = "await"

\* C6: message ids grow strictly with each sendMessage and are never given
\* twice, and every exchange still open is the one the routing table holds
\* under its id.
C6_UniqueIncreasingIds ==
    /\ \A c \in Exchanges : \A d \in Exchanges : c < d => calls[c].id < calls[d].id
    /\ \A c \in Exchanges : 1 <= calls[c].id /\ calls[c].id <= messageId
    /\ \A i \in DOMAIN replies : calls[replies[i]].id = i
    /\ \A c \in Exchanges :
          calls[c].subj = "open" => (calls[c].id \in DOMAIN replies /\ replies[calls[c].id] = c)

\* Two exchanges are registered, the later one allocated while disconnected
\* after an earlier connection.
C6_Witness ==
    /\ Cardinality(DOMAIN replies) >= 2
    /\ Len(attempts) >= 2
    /\ attempts[1].promise = "resolved"

\* C7: when the connection drops, the routing table is emptied and every
\* pending one-shot call is rejected.
C7_DropResetsRouting ==
    [][(connected /\ ~connected') =>
          /\ DOMAIN replies' = {}
          /\ \A c \in Exchanges : calls[c].res = "pending" => calls'[c].res = "rejected"]_vars

\* C8: on a connection opened after an earlier one, the first frame sent
\* carries id 1.
C8_ReconnectRestartsIds ==
    \A i \in DOMAIN wire :
        (/\ \A j \in DOMAIN wire : j < i => wire[j].sock # wire[i].sock
         /\ \E k \in DOMAIN attempts : k < wire[i].sock /\ attempts[k].promise = "resolved")
        => wire[i].id = 1

\* C9 as stated: a frame addressed by id (not an entity notification, which
\* C10 covers) whose id has no routing entry is logged, and nothing of the
\* client changes.
C9_UnroutedLoggedAndDropped ==
    [][LET f == lastEvent'.frame
       IN  (f \notin {NoFrame, NullFrame} /\ f.type \notin EntityTypes /\ f.id \notin DOMAIN replies) =>
               (lastEvent'.outcome = "logged" /\ UNCHANGED client)]_vars

\* C9 amended: a frame addressed by id whose id has no routing entry changes
\* nothing of the client and does not make onMessage throw; it is logged
\* unless its type is 'channel', which is dropped without a log line.
C9_UnroutedDropped ==
    [][LET f == lastEvent'.frame
       IN  (f \notin {NoFrame, NullFrame} /\ f.type \notin EntityTypes /\ f.id \notin DOMAIN replies) =>
               /\ lastEvent'.outcome = (IF f.type = "channel" THEN "ignored" ELSE "logged")
               /\ UNCHANGED client]_vars

\* A late reply: the frame just logged carries the id of a call already closed.
C9_Witness ==
    /\ lastEvent.outcome = "logged"
    /\ \E c \in Exchanges : calls[c].id = lastEvent.frame.id /\ calls[c].subj = "completed"

\* What routing a frame by its id alone does: the exchange registered under
\* f.id, if any, gets f, and no other exchange gets anything.
RoutedById(f) ==
    /\ lastEvent'.outcome # "entity"
    /\ IF f.id \in DOMAIN replies
       THEN /\ lastEvent'.outcome = "delivered"
            /\ calls'[replies[f.id]].val = f
            /\ \A c \in DOMAIN calls : c # replies[f.id] => calls'[c] = calls[c]
       ELSE calls' = calls

\* An entity notification goes to the EntityState and to no exchange.
RoutedToEntityState ==
    /\ lastEvent'.outcome = "entity"
    /\ UNCHANGED client

\* C10 as stated: entity notifications go to the EntityState, every other
\* frame is routed by its id.
C10_EntityOrById ==
    [][LET f == lastEvent'.frame
       IN  f \notin {NoFrame, NullFrame} =>
               IF f.type \in EntityTypes THEN RoutedToEntityState ELSE RoutedById(f)]_vars

\* C10 amended: entity notifications go to the EntityState and never to an
\* exchange; a 'channel' frame is ignored, whatever its id; every other frame
\* is routed by its id.
C10_EntityChannelOrById ==
    [][LET f == lastEvent'.frame
       IN  f \notin {NoFrame, NullFrame} =>
               IF f.type \in EntityTypes THEN RoutedToEntityState
               ELSE IF f.type = "channel" THEN lastEvent'.outcome = "ignored" /\ UNCHANGED client
               ELSE RoutedById(f)]_vars

\* An entity notification carrying the id of a pending exchange went to the
\* EntityState.
C10_Witness ==
    /\ lastEvent.outcome = "entity"
    /\ lastEvent.frame.id \in DOMAIN replies
    /\ calls[replies[lastEvent.frame.id]].res = "pending"

\* The getActionTypes() invocations that asked the server.
Fetches == {g \in DOMAIN gats : gats[g].exch # 0}

\* C11: a firstAndClose() that resolved has torn its exchange down (routing
\* entry removed, subject completed, teardown run once); it resolved with the
\* frame delivered to it first, and no later frame changes what it resolved
\* with.
C11_FirstReplyThenTeardown ==
    /\ [](\A c \in Exchanges :
            calls[c].res = "resolved" =>
                /\ calls[c].id \notin DOMAIN replies
                /\ calls[c].subj = "completed"
                /\ calls[c].teardowns = 1)
    /\ [][\A c \in Exchanges :
            /\ (calls[c].res = "pending" /\ calls'[c].res = "resolved") =>
                  (lastEvent'.outcome = "delivered" /\ calls'[c].val = lastEvent'.frame)
            /\ calls[c].res = "resolved" =>
                  (calls'[c].res = "resolved" /\ calls'[c].val = calls[c].val)]_vars

\* A call resolved with its first reply, and a different frame that came for
\* its id afterwards was logged and dropped.
C11_Witness ==
    /\ lastEvent.outcome = "logged"
    /\ \E c \in Exchanges :
          /\ calls[c].id = lastEvent.frame.id
          /\ calls[c].res = "resolved"
          /\ calls[c].val # lastEvent.frame

\* C12 as stated: a firstAndClose() whose first reply is an 'error' frame does
\* not resolve with that frame.
C12_ErrorFrameRejectsFirstAndClose ==
    \A c \in Exchanges : ~(calls[c].res = "resolved" /\ calls[c].val.type = "error")

\* C12 amended: firstAndClose() resolves with an 'error' frame as with any
\* first reply; the getActionTypes() that awaited it then throws an Error
\* and returns no descriptor.
C12_ErrorFrameRejectsCaller ==
    \A g \in Fetches :
        (calls[gats[g].exch].res = "resolved" /\ calls[gats[g].exch].val.type = "error") =>
            /\ calls[gats[g].exch].subj = "completed"
            /\ mq = <<>> => (gats[g].pc = "threw" /\ gats[g].err = "Error" /\ gats[g].desc = 0)

\* getActionTypes() threw the error the server answered with.
C12_Witness ==
    \E g \in Fetches :
        /\ calls[gats[g].exch].val.type = "error"
        /\ gats[g].pc = "threw"
        /\ gats[g].err = "Error"

\* C18: two getActionTypes() calls for the same pair that are both waiting
\* wait for the same fetch.
C18_NoDuplicateFetch ==
    \A g \in Fetches : \A h \in Fetches :
        (gats[g].pair = gats[h].pair /\ gats[g].pc = "await" /\ gats[h].pc = "await") =>
            gats[g].exch = gats[h].exch

\* C19: a cached descriptor never changes, and a getActionTypes() call for a
\* cached pair returns it without allocating an exchange or sending a frame.
C19_CachedDescriptorStable ==
    /\ [][\A p \in Pairs : cachedActionsTypes[p] # 0 => cachedActionsTypes'[p] = cachedActionsTypes[p]]_vars
    /\ [][\A p \in Pairs :
            (CallGetActionTypes(p) /\ cachedActionsTypes[p] # 0) =>
                /\ gats'[Len(gats')].pc = "returned"
                /\ gats'[Len(gats')].desc = cachedActionsTypes[p]
                /\ UNCHANGED <<messageId, replies, calls, wire>>]_vars

\* C20: a fetch answered by anything but actionTypes/result makes
\* getActionTypes() throw; a getActionTypes() that throws leaves the cache as
\* it was, so that every cache entry comes from a fetch that succeeded; and a
\* call for a pair that is not cached issues a new fetch.
C20_FailedFetchNotCached ==
    /\ [](\A g \in Fetches :
            (mq = <<>> /\ calls[gats[g].exch].res = "resolved"
                /\ calls[gats[g].exch].val.type # "actionTypes/result") =>
                    (gats[g].pc = "threw" /\ gats[g].desc = 0))
    /\ [](\A p \in Pairs :
            cachedActionsTypes[p] # 0 =>
                \E g \in Fetches : gats[g].pair = p /\ gats[g].pc = "returned")
    /\ [][\A g \in DOMAIN gats :
            (gats[g].pc = "await" /\ gats'[g].pc = "threw") => UNCHANGED cachedActionsTypes]_vars
    /\ [][\A p \in Pairs :
            (CallGetActionTypes(p) /\ cachedActionsTypes[p] = 0) =>
                /\ messageId' = messageId + 1
                /\ gats'[Len(gats')].pc = "await"
                /\ gats'[Len(gats')].exch = Len(calls')
                /\ calls'[Len(calls')].kind = "actionTypes"]_vars

\* A fetch failed on an 'error' reply; a later fetch for the same pair
\* succeeded.
C20_Witness ==
    \E g \in Fetches : \E h \in Fetches :
        /\ g < h
        /\ gats[g].pair = gats[h].pair
        /\ gats[g].pc = "threw" /\ calls[gats[g].exch].val.type = "error"
        /\ gats[h].pc = "returned" /\ cachedActionsTypes[gats[h].pair] = gats[h].desc

\* The exchanges stream() subscribed to.
LiveExchanges == {c \in DOMAIN calls : calls[c].stream # 0}

\* The streams whose action was sent.
Subscribed == {s \in DOMAIN streams : streams[s].exch # 0}

\* The unsubscribe frames handed to a socket for exchange id i.
Unsubscribes(i) ==
    {n \in DOMAIN wire :
        wire[n].id = i /\ wire[n].name \in {"entity/unsubscribe", "collection/unsubscribe"}}

TerminalFrame(t, i) == Frame(t, i, FALSE, 0, "none", 0)

\* C13: the teardown of an exchange runs at most once, however often close()
\* is called and whatever frames arrive after a close().
C13_TeardownAtMostOnce ==
    \A c \in Exchanges : calls[c].teardowns <= 1

\* C14 as stated: a released entity or collection that had an unsubscribe
\* registered has exactly one unsubscribe frame, carrying its exchange id,
\* handed to the transport.
C14_ReleaseSendsOneUnsubscribe ==
    \A s \in Subscribed :
        (streams[s].released /\ streams[s].unsub) =>
            Cardinality(Unsubscribes(calls[streams[s].exch].id)) = 1

\* C14 amended: the release hands one unsubscribe frame with the exchange id
\* to the socket if the client has one and sends nothing if it has none; no
\* other step, a complete or an error frame included, sends an unsubscribe
\* frame.
C14_ReleaseSendsOneUnsubscribeIfSocket ==
    /\ [][\A s \in Subscribed :
            (Release(s) /\ streams[s].unsub) =>
                IF socket = 0 THEN wire' = wire
                ELSE /\ Len(wire') = Len(wire) + 1
                     /\ wire'[Len(wire')].id = calls[streams[s].exch].id
                     /\ wire'[Len(wire')].name =
                            (IF streams[s].value = "entity" THEN "entity/unsubscribe"
                             ELSE "collection/unsubscribe")]_vars
    /\ [](\A s \in Subscribed :
            /\ Cardinality(Unsubscribes(calls[streams[s].exch].id)) <= 1
            /\ ~(streams[s].released /\ streams[s].unsub) =>
                  Unsubscribes(calls[streams[s].exch].id) = {})

\* A collection was released, its exchange ended with an error frame, and one
\* unsubscribe frame went out.
C14_Witness ==
    \E s \in Subscribed :
        /\ streams[s].released
        /\ streams[s].coll = "errored"
        /\ calls[streams[s].exch].teardowns = 1
        /\ Cardinality(Unsubscribes(calls[streams[s].exch].id)) = 1

\* C15: an exchange that was closed has no routing entry and a stopped
\* subject, so that no frame changes anything of its stream() any more: the
\* promise, the live object and its content stay as they were at the close;
\* and the first close() runs the teardown once.
C15_CloseStopsDelivery ==
    /\ [](\A c \in LiveExchanges :
            calls[c].teardowns >= 1 =>
                (calls[c].id \notin DOMAIN replies /\ calls[c].subj # "open"))
    /\ [][\A s \in Subscribed :
            calls[streams[s].exch].teardowns >= 1 => streams'[s] = streams[s]]_vars
    /\ [][\A c \in LiveExchanges :
            (CallClose(c) /\ calls[c].teardowns = 0) =>
                (calls'[c].teardowns = 1 /\ calls[c].id \notin DOMAIN replies')]_vars

\* A live collection that is still open, its exchange closed by hand.
C15_Witness ==
    \E s \in Subscribed :
        /\ streams[s].coll = "open"
        /\ calls[streams[s].exch].teardowns = 1
        /\ calls[streams[s].exch].subj = "completed"
        /\ connected

C17_DirectValueClosesExchange ==
    \A s \in Subscribed :
        streams[s].value = "json" =>
            (calls[streams[s].exch].id \notin DOMAIN replies /\ calls[streams[s].exch].subj # "open")

\* The streams that resolved with an EntitySubject.
EntityStreams == {s \in DOMAIN streams : streams[s].value = "entity"}

\* C21: a stream() that resolves with an EntitySubject got the unsubscribe
\* teardown registered exactly when the entityState had none for the key
\* before; otherwise it resolves with the one the entityState has.  A call
\* without the registration never sends entity/unsubscribe with its exchange
\* id, and releasing what it resolved with sends nothing.
C21_UnsubscribeOnlyIfCreated ==
    /\ [][\A s \in Subscribed :
            (streams[s].value # "entity" /\ streams'[s].value = "entity") =>
                LET key == mirrors'[streams'[s].mirror].key
                IN  /\ streams'[s].unsub = (entityState[key] = 0)
                    /\ streams'[s].mirror =
                          (IF entityState[key] = 0 THEN Len(mirrors) + 1 ELSE entityState[key])]_vars
    /\ [](\A s \in EntityStreams :
            ~streams[s].unsub => Unsubscribes(calls[streams[s].exch].id) = {})
    /\ [][\A s \in EntityStreams : (Release(s) /\ ~streams[s].unsub) => wire' = wire]_vars

\* Two calls hold the same EntitySubject; the second, which found it
\* tracked, released it and no entity/unsubscribe carries its exchange id.
C21_Witness ==
    \E s \in EntityStreams : \E t \in EntityStreams :
        /\ s < t
        /\ streams[s].mirror = streams[t].mirror
        /\ streams[s].unsub /\ ~streams[t].unsub
        /\ streams[t].released /\ ~streams[s].released
        /\ Unsubscribes(calls[streams[t].exch].id) = {}

\* The streams that hold an EntitySubject the entityState has not dropped.
MirrorHolders == {s \in EntityStreams : ~mirrors[streams[s].mirror].removed}

PatchFrame(key) == Frame("entity/patch", 0, FALSE, 0, "none", key)

SubWire(name, i, n) ==
    {j \in DOMAIN wire : wire[j].name = name /\ wire[j].id = i /\ wire[j].sub = n}

\* C23 as stated: every subscription has exactly one observable/subscribe
\* frame, and every subscription the consumer unsubscribed exactly one
\* observable/unsubscribe frame, carrying its subscribeId.
C23_SubscribeSendsOneFrame ==
    \A s \in Subscribed : \A n \in DOMAIN streams[s].subs :
        /\ Cardinality(SubWire("observable/subscribe", calls[streams[s].exch].id, n)) = 1
        /\ streams[s].subs[n].state = "unsubscribed" =>
              Cardinality(SubWire("observable/unsubscribe", calls[streams[s].exch].id, n)) = 1

\* C23 amended: subscribe() hands one observable/subscribe frame with a
\* subscribeId no earlier subscription of the exchange used to the socket if
\* the client has one, and sends nothing if it has none; unsubscribe() of
\* an open subscription likewise hands one observable/unsubscribe frame with
\* that subscribeId; no subscription gets a second frame of either kind; and
\* a next/observable, error/observable or complete/observable frame changes
\* no subscriber but the one registered under its subscribeId.
C23_SubscribeSendsOneFrameIfSocket ==
    /\ [][\A s \in Subscribed :
            CallSubscribe(s) =>
                IF socket = 0 THEN wire' = wire
                ELSE /\ Len(wire') = Len(wire) + 1
                     /\ wire'[Len(wire')].name = "observable/subscribe"
                     /\ wire'[Len(wire')].id = calls[streams[s].exch].id
                     /\ SubWire("observable/subscribe", calls[streams[s].exch].id,
                                wire'[Len(wire')].sub) = {}]_vars
    /\ [][\A s \in Subscribed : \A n \in DOMAIN streams[s].subs :
            CallUnsubscribe(s, n) =>
                IF socket = 0 THEN wire' = wire
                ELSE /\ Len(wire') = Len(wire) + 1
                     /\ wire'[Len(wire')].name = "observable/unsubscribe"
                     /\ wire'[Len(wire')].id = calls[streams[s].exch].id
                     /\ wire'[Len(wire')].sub = n]_vars
    /\ [](\A s \in Subscribed : \A n \in SubscribeIds :
            /\ Cardinality(SubWire("observable/subscribe", calls[streams[s].exch].id, n)) <= 1
            /\ Cardinality(SubWire("observable/unsubscribe", calls[streams[s].exch].id, n)) <= 1)
    /\ [][\A s \in Subscribed : \A k \in DOMAIN attempts : \A n \in SubscribeIds :
          \A t \in {"next/observable", "error/observable", "complete/observable"} :
            (/\ attempts[k].ready = "open"
             /\ mq' = mq /\ attempts' = attempts
             /\ SocketDelivers(k, SubFrame(t, calls[streams[s].exch].id, n))) =>
                    /\ \A m \in DOMAIN streams[s].subs :
                          m # n => streams'[s].subs[m] = streams[s].subs[m]
                    /\ (t = "next/observable" /\ n \in DOMAIN streams[s].subs
                            /\ streams[s].subs[n].state = "open"
                            /\ calls[streams[s].exch].subj = "open") =>
                          streams'[s].subs[n].content # streams[s].subs[n].content]_vars

\* Two subscriptions of one exchange; the second one got a value, the first
\* one was unsubscribed, each with its own frames.
C23_Witness ==
    \E s \in Subscribed :
        /\ Len(streams[s].subs) = 2
        /\ streams[s].subs[1].state = "unsubscribed"
        /\ streams[s].subs[2].content = 1
        /\ Cardinality(SubWire("observable/unsubscribe", calls[streams[s].exch].id, 1)) = 1
        /\ Cardinality(SubWire("observable/subscribe", calls[streams[s].exch].id, 2)) = 1

\* C24: a subscription ended by a complete/observable or error/observable
\* frame, or by unsubscribe(), leaves the exchange registered.
C24_SubscriptionEndKeepsExchange ==
    \A s \in Subscribed :
        (\E n \in DOMAIN streams[s].subs : streams[s].subs[n].state # "open") =>
            calls[streams[s].exch].id \in DOMAIN replies

\* The streams that resolved with a collection.
CollectionStreams == {s \in Subscribed : streams[s].value = "collection"}

C26_UnknownEntityRejects ==
    \A s \in Subscribed :
        /\ streams[s].thrown => streams[s].promise = "rejected"
        /\ (streams[s].promise = "resolved" /\ streams[s].value = "json") =>
              ~Unregistered(gats[streams[s].gat].desc)

\* The exchange is registered under its id.
Routed(r, c) == calls[c].id \in DOMAIN r /\ r[calls[c].id] = c

\* C27: a frame changes nothing of an exchange with another id: its record
\* and routing entry, its getActionTypes() and its stream() stay as they
\* were, whatever the frame did to its own exchange (an error frame, a
\* terminal frame, a subscriber that threw); a stream() that is rejected
\* leaves every exchange but its own unchanged; and a first reply to a
\* registered one-shot exchange resolves it with that reply.
C27_FailureIsolation ==
    /\ [][LET f == lastEvent'.frame
           IN  (lastEvent = NoEvent /\ f # NoFrame) =>
                   \A c \in Exchanges :
                       calls[c].id # f.id =>
                           /\ calls'[c] = calls[c]
                           /\ Routed(replies', c) = Routed(replies, c)
                           /\ calls[c].stream # 0 => streams'[calls[c].stream] = streams[calls[c].stream]
                           /\ calls[c].gat # 0 => gats'[calls[c].gat] = gats[calls[c].gat]]_vars
    /\ [][\A s \in DOMAIN streams :
            (streams[s].promise = "pending" /\ streams'[s].promise = "rejected") =>
                \A c \in Exchanges :
                    calls[c].stream # s =>
                        (calls'[c] = calls[c] /\ Routed(replies', c) = Routed(replies, c))]_vars
    /\ [][LET f == lastEvent'.frame
           IN  (lastEvent = NoEvent /\ f # NoFrame /\ f.id \in DOMAIN replies) =>
                   LET c == replies[f.id]
                   IN  (calls[c].stream = 0 /\ calls[c].res = "pending") =>
                           (calls'[c].res = "resolved" /\ calls'[c].val = f)]_vars

\* A stream() failed (its subscriber threw, or it was rejected) while
\* another stream()'s exchange was registered; the reply that came for the
\* other one afterwards resolved it.
C27_Witness ==
    \E s \in Subscribed : \E t \in Subscribed :
        /\ s # t
        /\ streams[s].thrown \/ streams[s].promise = "rejected"
        /\ lastEvent.outcome = "delivered"
        /\ lastEvent.frame.id = calls[streams[t].exch].id
        /\ lastEvent.frame.type = "next/json"
        /\ streams[t].promise = "resolved"

\* The frames sendMessage built that were handed to a socket.
MessageWire == {i \in DOMAIN wire : wire[i].name \in {"authenticate", "actionTypes", "action"}}

\* C28: a frame sendMessage built is handed to a socket that is open, at
\* most once, and only when the connect() of its sendMessage has resolved;
\* and a sendMessage whose frame waits for the connection does not wait any
\* more once the socket it waits for is open and nothing is left to run or
\* to be answered.
C28_SentOnceWhenOpen ==
    /\ \A i \in MessageWire : wire[i].ready = "open"
    /\ \A i \in MessageWire : \A j \in MessageWire : wire[i].id = wire[j].id => i = j
    /\ \A i \in MessageWire : \E c \in Exchanges : calls[c].id = wire[i].id /\ calls[c].cpc = "resolved"
    /\ \A c \in Exchanges :
          (Quiescent /\ calls[c].cpc = "await") => attempts[calls[c].att].ready # "open"

\* The frames onMessage routes by their id.
Routable(f) == f # NullFrame /\ ~IsEntityMessage(f) /\ f.type # "channel"

\* The places in arrived of the frames for the message id of call c.
Due(c) ==
    SelectSeq([n \in 1 .. Len(arrived) |-> n],
              LAMBDA n : Routable(arrived[n]) /\ arrived[n].id = calls[c].id)

\* The places in arrived of the frames the subscriber of call c was called
\* with, in the order of the calls.
Got(c) ==
    LET D == SelectSeq(handed, LAMBDA e : e.c = c)
    IN  [i \in 1 .. Len(D) |-> D[i].n]

Listening(c) ==
    /\ calls[c].subj = "open"
    /\ calls[c].stream # 0 => ~streams[calls[c].stream].thrown

\* C29: the frames the subscriber of an exchange was called with are, in
\* the same order, the first of the frames that arrived for its message id,
\* and all of them while its subject is open and the subscriber subscribed,
\* whatever frames of other exchanges arrived in between.
C29_PerExchangeOrder ==
    \A c \in Exchanges :
        /\ Len(Got(c)) <= Len(Due(c))
        /\ \A i \in 1 .. Len(Got(c)) : Got(c)[i] = Due(c)[i]
        /\ Listening(c) => Got(c) = Due(c)

\* Two frames were handed to one exchange and, in between, one to another,
\* and a frame for an exchange id went nowhere.
C29_Witness ==
    /\ \E i, j, k \in DOMAIN handed :
          i < j /\ j < k /\ handed[i].c = handed[k].c /\ handed[j].c # handed[i].c
    /\ \E c \in Exchanges : Len(Got(c)) >= 2 /\ Len(Got(c)) < Len(Due(c))

\* C30: in either direction every progress update of a chunked transfer has
\* total > 0, current <= total and progress <= 1, current never decreases
\* from an update to the next, and done is true in one update only, the one
\* in which current reaches the total.
C30_ProgressContract ==
    \A d \in Directions :
        LET u == transfers[d].updates
        IN  /\ \A i \in DOMAIN u :
                  /\ u[i].total > 0
                  /\ u[i].current <= u[i].total
                  /\ u[i].progress <= 100
                  /\ u[i].done <=> u[i].current = u[i].total
                  /\ i > 1 => u[i - 1].current <= u[i].current
            /\ Cardinality({i \in DOMAIN u : u[i].done}) <= 1
            /\ transfers[d].done <=> (u # <<>> /\ u[Len(u)].done)

\* Both transfers are over after three updates or more, the upload with a
\* last chunk shorter than the others.
C30_Witness ==
    /\ \A d \in Directions : transfers[d].done /\ Len(transfers[d].updates) >= 3
    /\ transfers["upload"].total % ChunkSize # 0

\* The current values of the updates of the transfer in direction d.
Samples(d) == [i \in DOMAIN transfers[d].updates |-> transfers[d].updates[i].current]

\* done is true in the last update only, and progress is 1 there.
DoneAtLast(d) ==
    LET u == transfers[d].updates
    IN  /\ \A i \in DOMAIN u : u[i].done <=> i = Len(u)
        /\ u[Len(u)].progress = 100

C32_EndedAttemptIsCleared ==
    \A k \in DOMAIN attempts :
        (Idle /\ attempts[k].ready \in {"open", "closed"}) =>
            /\ connectionPromise # k
            /\ \A c \in DOMAIN calls : ~(calls[c].cpc = "await" /\ calls[c].att = k)

\* C33: every getActions call returned, for each action name, the groups
\* and data the first call on the same class returned, and the groups and
\* data the decorators stored are those they declared.
C33_GetActionsRepeatable ==
    /\ \A i \in DOMAIN returned : \A j \in DOMAIN returned :
          returned[i].target = returned[j].target => returned[i].actions = returned[j].actions
    /\ \A c \in Classes : \A n \in Names :
          /\ rpcClass[c].actions[n].groups = declared[c].actions[n].groups
          /\ rpcClass[c].actions[n].data = declared[c].actions[n].data

====
